---- MODULE Spec2Model ----
(***************************************************************************)
(* The MCP file server (src/src/mcp_file_server/main.py): the three tools  *)
(* read_file, write_file and list_directory over a POSIX filesystem.       *)
(*                                                                         *)
(* A path string is a sequence of characters, a text is a sequence of      *)
(* Unicode code points, file data is a sequence of bytes.  A text or a     *)
(* byte string is kept as  [head, pad, tail] : the sequence head, then pad *)
(* copies of the letter x (code point and byte 120), then the sequence     *)
(* tail, so that data longer than the 8192 byte probe of is_binary_file is *)
(* represented without enumerating it.  pad = 0 implies tail = << >>.      *)
(***************************************************************************)
EXTENDS Integers, Sequences, FiniteSets, TLC

VARIABLES
    nodes,    \* the filesystem: absolute path -> node (directory, file, socket)
    now,      \* the filesystem clock, stamped on a file when it is written
    call,     \* the last tool call: [op, path, content]
    result,   \* what that call returned or raised
    before,   \* the filesystem as it was when that call started
    log,      \* history: the successful write_file calls, oldest first
    budget,   \* the write_file calls the behaviour may still make
    threads   \* the write_file calls that run concurrently: thread -> its state

vars == <<nodes, now, call, result, before, log, budget, threads>>

-----------------------------------------------------------------------------
(* Bounds of the model *)

\* write_file calls in one behaviour that starts from any initial filesystem
MaxWrites == 1

\* write_file calls in one behaviour that starts from the bare filesystem
MaxSeqWrites == 2

\* threads that run write_file at the same time
NumThreads == 2

-----------------------------------------------------------------------------
(* Program constants *)

\* f.read(8192)
ChunkSize == 8192

\* b'\x00', "\x00"
NulByte == 0

\* datetime.MAXYEAR, the last year datetime.fromtimestamp() can return
MaxYear == 9999

-----------------------------------------------------------------------------
(* Sequences *)

Last(s) == s[Len(s)]

Front(s) == SubSeq(s, 1, Len(s) - 1)

Take(s, n) == SubSeq(s, 1, IF n < Len(s) THEN n ELSE Len(s))

IsPrefix(s, t) == Len(s) <= Len(t) /\ SubSeq(t, 1, Len(s)) = s

Range(s) == {s[i] : i \in 1..Len(s)}

-----------------------------------------------------------------------------
(* Texts and byte strings *)

Str(head, pad, tail) == [head |-> head, pad |-> pad, tail |-> tail]

\* pad = 0 leaves one sequence: the representation is then unique
Norm(s) == IF s.pad = 0 THEN Str(s.head \o s.tail, 0, << >>) ELSE s

Flat(s) == Str(s, 0, << >>)

EmptyStr == Flat(<< >>)

StrLen(s) == Len(s.head) + s.pad + Len(s.tail)

\* s[:n]
StrTake(s, n) ==
    IF n <= Len(s.head) THEN Flat(Take(s.head, n))
    ELSE IF n <= Len(s.head) + s.pad THEN Norm(Str(s.head, n - Len(s.head), << >>))
    ELSE Norm(Str(s.head, s.pad, Take(s.tail, n - Len(s.head) - s.pad)))

\* s[n:]
StrDrop(s, n) ==
    IF n >= StrLen(s) THEN Flat(<< >>)
    ELSE IF n <= Len(s.head)
    THEN Norm(Str(SubSeq(s.head, n + 1, Len(s.head)), s.pad, s.tail))
    ELSE IF n <= Len(s.head) + s.pad
    THEN Norm(Str(<< >>, s.pad - (n - Len(s.head)), s.tail))
    ELSE Flat(SubSeq(s.tail, n - Len(s.head) - s.pad + 1, Len(s.tail)))

\* a + b, where the result has one run of filler
StrCat(a, b) ==
    CASE a.pad = 0 -> Norm(Str(a.head \o b.head, b.pad, b.tail))
      [] a.pad > 0 /\ b.pad = 0 -> Str(a.head, a.pad, a.tail \o b.head)
      [] a.pad > 0 /\ b.pad > 0 /\ a.tail = << >> /\ b.head = << >>
           -> Str(a.head, a.pad + b.pad, b.tail)

\* x in s
StrHas(s, x) ==
    \/ x \in Range(s.head)
    \/ x \in Range(s.tail)
    \/ (s.pad > 0 /\ x = 120)

-----------------------------------------------------------------------------
(* UTF-8, as str.encode('utf-8') and bytes.decode('utf-8') in strict mode *)

IsSurrogate(cp) == cp >= 55296 /\ cp <= 57343

EncodeChar(cp) ==
    IF cp < 128 THEN <<cp>>
    ELSE IF cp < 2048 THEN <<192 + (cp \div 64), 128 + (cp % 64)>>
    ELSE IF cp < 65536
         THEN <<224 + (cp \div 4096), 128 + ((cp \div 64) % 64), 128 + (cp % 64)>>
    ELSE <<240 + (cp \div 262144), 128 + ((cp \div 4096) % 64),
           128 + ((cp \div 64) % 64), 128 + (cp % 64)>>

RECURSIVE EncodeSeq(_)
EncodeSeq(t) ==
    IF t = << >> THEN << >> ELSE EncodeChar(t[1]) \o EncodeSeq(Tail(t))

\* a lone surrogate cannot be encoded: UnicodeEncodeError
Encodable(t) == \A cp \in Range(t.head) \cup Range(t.tail) : ~IsSurrogate(cp)

Utf8Encode(t) == Norm(Str(EncodeSeq(t.head), t.pad, EncodeSeq(t.tail)))

IsCont(b) == b >= 128 /\ b <= 191

\* the number of bytes of the character that starts at b[i]; 0 when the bytes
\* there are not a well-formed UTF-8 sequence
CharWidth(b, i) ==
    LET c == b[i]
        n == Len(b)
    IN  IF c < 128 THEN 1
        ELSE IF c >= 194 /\ c <= 223
             THEN IF i + 1 <= n /\ IsCont(b[i + 1]) THEN 2 ELSE 0
        ELSE IF c >= 224 /\ c <= 239
             THEN IF /\ i + 2 <= n
                     /\ IsCont(b[i + 1])
                     /\ IsCont(b[i + 2])
                     /\ (c = 224 => b[i + 1] >= 160)
                     /\ (c = 237 => b[i + 1] <= 159)
                  THEN 3 ELSE 0
        ELSE IF c >= 240 /\ c <= 244
             THEN IF /\ i + 3 <= n
                     /\ IsCont(b[i + 1])
                     /\ IsCont(b[i + 2])
                     /\ IsCont(b[i + 3])
                     /\ (c = 240 => b[i + 1] >= 144)
                     /\ (c = 244 => b[i + 1] <= 143)
                  THEN 4 ELSE 0
        ELSE 0

CharAt(b, i, w) ==
    IF w = 1 THEN b[i]
    ELSE IF w = 2 THEN (b[i] - 192) * 64 + (b[i + 1] - 128)
    ELSE IF w = 3
         THEN (b[i] - 224) * 4096 + (b[i + 1] - 128) * 64 + (b[i + 2] - 128)
    ELSE (b[i] - 240) * 262144 + (b[i + 1] - 128) * 4096
         + (b[i + 2] - 128) * 64 + (b[i + 3] - 128)

RECURSIVE ValidFrom(_, _)
ValidFrom(b, i) ==
    IF i > Len(b) THEN TRUE
    ELSE LET w == CharWidth(b, i) IN IF w = 0 THEN FALSE ELSE ValidFrom(b, i + w)

RECURSIVE DecodeFrom(_, _)
DecodeFrom(b, i) ==
    IF i > Len(b) THEN << >>
    ELSE LET w == CharWidth(b, i) IN <<CharAt(b, i, w)>> \o DecodeFrom(b, i + w)

\* FALSE: UnicodeDecodeError.  The pad bytes are ASCII, so head and tail of a
\* normalised byte string decode on their own.
Decodable(d) == ValidFrom(d.head, 1) /\ ValidFrom(d.tail, 1)

Utf8Decode(d) == Norm(Str(DecodeFrom(d.head, 1), d.pad, DecodeFrom(d.tail, 1)))

-----------------------------------------------------------------------------
(* Newlines of a text-mode file opened with newline=None *)

\* reading: "\r\n" and a lone "\r" both become "\n"
RECURSIVE UniversalSeq(_)
UniversalSeq(t) ==
    IF t = << >> THEN << >>
    ELSE IF t[1] = 13
         THEN IF Len(t) >= 2 /\ t[2] = 10
              THEN <<10>> \o UniversalSeq(SubSeq(t, 3, Len(t)))
              ELSE <<10>> \o UniversalSeq(Tail(t))
    ELSE <<t[1]>> \o UniversalSeq(Tail(t))

UniversalNewlines(t) == Norm(Str(UniversalSeq(t.head), t.pad, UniversalSeq(t.tail)))

\* os.linesep of the POSIX platform the server runs on
LineSep == <<10>>

\* writing: "\n" becomes os.linesep
RECURSIVE LineSepSeq(_)
LineSepSeq(t) ==
    IF t = << >> THEN << >>
    ELSE (IF t[1] = 10 THEN LineSep ELSE <<t[1]>>) \o LineSepSeq(Tail(t))

WriteNewlines(t) == Norm(Str(LineSepSeq(t.head), t.pad, LineSepSeq(t.tail)))

-----------------------------------------------------------------------------
(* Results: the value a tool returns, or the ValueError it raises.  kind is  *)
(* the failure kind, msg the fixed part of the message, detail the exception *)
(* whose str() an "Unexpected error" or "Error ..." message carries.         *)

Success(value) == [ok |-> TRUE, kind |-> "Ok", value |-> value]

Failure(kind, msg, detail) ==
    [ok |-> FALSE, kind |-> kind, msg |-> msg, detail |-> detail]

-----------------------------------------------------------------------------
(* Path strings.  Characters: "/", ".", " ", "NUL" (the character \x00) and *)
(* letters.  A resolved path is the sequence of its component names, the    *)
(* root is << >>.                                                           *)

\* the working directory of the server process, against which Path.resolve()
\* resolves a relative path
Cwd == << <<"d">> >>

IsSpace(c) == c = " "

RECURSIVE LStrip(_)
LStrip(s) == IF s # << >> /\ IsSpace(s[1]) THEN LStrip(Tail(s)) ELSE s

RECURSIVE RStrip(_)
RStrip(s) == IF s # << >> /\ IsSpace(Last(s)) THEN RStrip(Front(s)) ELSE s

\* str.strip()
Strip(s) == RStrip(LStrip(s))

\* file_path.split("/"), the components pathlib parses
RECURSIVE SplitSlash(_, _)
SplitSlash(s, cur) ==
    IF s = << >> THEN <<cur>>
    ELSE IF s[1] = "/" THEN <<cur>> \o SplitSlash(Tail(s), << >>)
    ELSE SplitSlash(Tail(s), Append(cur, s[1]))

\* realpath over a filesystem without symbolic links: empty and "." components
\* are dropped, ".." removes the component before it, the root is its own parent
RECURSIVE NormParts(_, _)
NormParts(acc, parts) ==
    IF parts = << >> THEN acc
    ELSE LET c == parts[1] IN
         IF c = << >> \/ c = <<".">> THEN NormParts(acc, Tail(parts))
         ELSE IF c = <<".", ".">>
              THEN NormParts(IF acc = << >> THEN acc ELSE Front(acc), Tail(parts))
         ELSE NormParts(Append(acc, c), Tail(parts))

\* a normalisation that does not make the path absolute (os.path.normpath)
Resolve_Relative(raw) == NormParts(<< >>, SplitSlash(raw, << >>))

\* Path(file_path).resolve()
Resolve(raw) ==
    NormParts(IF raw[1] = "/" THEN << >> ELSE Cwd, SplitSlash(raw, << >>))

\* an emptiness test that does not strip
IsBlankPath_NoStrip(raw) == raw = << >>

\* `not file_path or not file_path.strip()`
IsBlankPath(raw) == raw = << >> \/ Strip(raw) = << >>

\* a validation without the NUL check
HasNulChar_Skipped(raw) == FALSE

\* `"\x00" in file_path`
HasNulChar(raw) == "NUL" \in Range(raw)

\* validate_and_sanitize_path: [ok |-> TRUE, path] or [ok |-> FALSE, err].
\* Path.resolve() raises neither OSError nor ValueError on a NUL-free string
\* over a filesystem without symbolic links.
validate_and_sanitize_path(raw) ==
    IF IsBlankPath(raw)
    THEN [ok |-> FALSE, err |-> Failure("InvalidPath", "File path cannot be empty", "")]
    ELSE IF HasNulChar(raw)
    THEN [ok |-> FALSE,
          err |-> Failure("InvalidPath", "Invalid characters in file path", "")]
    ELSE [ok |-> TRUE, path |-> Resolve(raw)]

-----------------------------------------------------------------------------
(* The filesystem: a function from the resolved paths that exist to nodes.  *)

Root == << >>

DirNode(mtime) == [kind |-> "dir", mtime |-> mtime]

\* a UNIX domain socket: exists, is neither a regular file nor a directory
SocketNode(mtime) == [kind |-> "socket", mtime |-> mtime]

\* a regular file: its bytes, whether the process may open it for reading and
\* for writing, and its modification time
FileNode(data, r, w, mtime) ==
    [kind |-> "file", data |-> data, r |-> r, w |-> w, mtime |-> mtime]

\* Path.exists()
Exists(fs, p) == p \in DOMAIN fs

\* Path.is_file()
IsFile(fs, p) == Exists(fs, p) /\ fs[p].kind = "file"

\* Path.is_dir()
IsDir(fs, p) == Exists(fs, p) /\ fs[p].kind = "dir"

\* Path.parent: the root is its own parent
Parent(p) == IF p = Root THEN Root ELSE Front(p)

Children(fs, p) == {q \in DOMAIN fs : q # Root /\ Front(q) = p}

Ancestors(p) == {SubSeq(p, 1, n) : n \in 0..(Len(p) - 1)}

\* fs with path p set to node n
Put(fs, p, n) == [q \in DOMAIN fs \cup {p} |-> IF q = p THEN n ELSE fs[q]]

\* a new entry p in its directory, whose modification time the kernel updates
Create(fs, p, n, clock) ==
    [q \in DOMAIN fs \cup {p} |->
        IF q = p THEN n
        ELSE IF q = Parent(p) THEN [fs[q] EXCEPT !.mtime = clock]
        ELSE fs[q]]

-----------------------------------------------------------------------------
(* is_binary_file *)

\* a probe that answers False when the file cannot be opened
is_binary_file_FailOpen(fs, p) ==
    IF ~IsFile(fs, p) THEN [raised |-> FALSE, value |-> FALSE]
    ELSE IF ~fs[p].r THEN [raised |-> TRUE, value |-> TRUE]
    ELSE [raised |-> FALSE, value |-> StrHas(StrTake(fs[p].data, ChunkSize), NulByte)]

\* a probe that reads the whole file, f.read()
ReadChunk_Whole(data) == data

\* a probe one byte short of the chunk
ReadChunk_Short(data) == StrTake(data, ChunkSize - 1)

\* f.read(8192)
ReadChunk(data) == StrTake(data, ChunkSize)

\* b'\x00' in chunk
ChunkIsBinary(chunk) == StrHas(chunk, NulByte)

\* [raised |-> TRUE]: PermissionError is re-raised; otherwise the value
\* returned.  open() of a missing path, a directory or a socket raises another
\* OSError, which the function answers with True.
is_binary_file(fs, p) ==
    IF ~IsFile(fs, p) THEN [raised |-> FALSE, value |-> TRUE]
    ELSE IF ~fs[p].r THEN [raised |-> TRUE, value |-> TRUE]
    ELSE [raised |-> FALSE, value |-> ChunkIsBinary(ReadChunk(fs[p].data))]

-----------------------------------------------------------------------------
(* read_file *)

\* a read that returns the probed chunk instead of the whole file
ReadText_Chunk(fs, p) ==
    IF ~fs[p].r
    THEN Failure("PermissionDenied", "Permission denied reading file", "")
    ELSE IF ~Decodable(StrTake(fs[p].data, ChunkSize))
    THEN Failure("EncodingError", "Cannot decode file as UTF-8", "")
    ELSE Success(UniversalNewlines(Utf8Decode(StrTake(fs[p].data, ChunkSize))))

\* path.read_text(encoding='utf-8') and the handlers of lines 134-142
ReadText(fs, p) ==
    IF ~fs[p].r
    THEN Failure("PermissionDenied", "Permission denied reading file", "")
    ELSE IF ~Decodable(fs[p].data)
    THEN Failure("EncodingError", "Cannot decode file as UTF-8", "")
    ELSE Success(UniversalNewlines(Utf8Decode(fs[p].data)))

\* the binary check of lines 124-126; a PermissionError of the probe is no
\* ValueError and is raised outside the inner try: line 147 catches it
BinaryCheck(fs, p) ==
    LET b == is_binary_file(fs, p) IN
    IF b.raised
    THEN Failure("Unexpected", "Unexpected error reading file", "PermissionError")
    ELSE IF b.value
    THEN Failure("BinaryFile", "Cannot read binary file", "")
    ELSE ReadText(fs, p)

\* a read_file that probes for binary content before it checks the type
read_file_ProbeFirst(fs, raw) ==
    LET v == validate_and_sanitize_path(raw) IN
    IF ~v.ok THEN v.err
    ELSE IF ~Exists(fs, v.path)
    THEN Failure("NotFound", "File not found", "")
    ELSE IF is_binary_file(fs, v.path).value
    THEN Failure("BinaryFile", "Cannot read binary file", "")
    ELSE IF ~IsFile(fs, v.path)
    THEN Failure("NotAFile", "Path is not a file", "")
    ELSE BinaryCheck(fs, v.path)

read_file(fs, raw) ==
    LET v == validate_and_sanitize_path(raw) IN
    IF ~v.ok THEN v.err
    ELSE IF ~Exists(fs, v.path)
    THEN Failure("NotFound", "File not found", "")
    ELSE IF ~IsFile(fs, v.path)
    THEN Failure("NotAFile", "Path is not a file", "")
    ELSE BinaryCheck(fs, v.path)

-----------------------------------------------------------------------------
(* write_file *)

\* a directory check that tests for a regular file
TargetIsDir_IsFile(fs, p) == Exists(fs, p) /\ IsFile(fs, p)

\* `path.exists() and path.is_dir()`, line 174
TargetIsDir(fs, p) == Exists(fs, p) /\ IsDir(fs, p)

\* Path.mkdir(exist_ok=True), without parents=True
Mkdir_NoParents(fs, p, clock) ==
    IF Exists(fs, p)
    THEN [ok |-> IsDir(fs, p), fs |-> fs, exc |-> "FileExistsError"]
    ELSE IF IsDir(fs, Parent(p))
    THEN [ok |-> TRUE, fs |-> Create(fs, p, DirNode(clock), clock), exc |-> ""]
    ELSE [ok |-> FALSE, fs |-> fs, exc |-> "FileNotFoundError"]

\* Path.mkdir(parents=True, exist_ok=True): [ok, fs, exc].  os.mkdir of an
\* existing path raises FileExistsError, which exist_ok forgives for a
\* directory only; under a missing parent it raises FileNotFoundError and the
\* parent is made first; under a parent that is no directory it raises
\* NotADirectoryError.
RECURSIVE Mkdir(_, _, _)
Mkdir(fs, p, clock) ==
    IF Exists(fs, p)
    THEN [ok |-> IsDir(fs, p), fs |-> fs, exc |-> "FileExistsError"]
    ELSE IF Exists(fs, Parent(p))
    THEN IF IsDir(fs, Parent(p))
         THEN [ok |-> TRUE, fs |-> Create(fs, p, DirNode(clock), clock), exc |-> ""]
         ELSE [ok |-> FALSE, fs |-> fs, exc |-> "NotADirectoryError"]
    ELSE LET up == Mkdir(fs, Parent(p), clock) IN
         IF up.ok
         THEN [ok |-> TRUE, fs |-> Create(up.fs, p, DirNode(clock), clock), exc |-> ""]
         ELSE up

\* an existence check made after the file was written
FileExists_Late(fs, p) == TRUE

\* `file_exists = path.exists()`, line 192
FileExists(fs, p) == Exists(fs, p)

\* line 198
SuccessMessage(file_exists) == IF file_exists THEN "overwrote" ELSE "created"

\* open(path, 'r+') or os.open without O_TRUNC: the old bytes stay
OpenTruncate_Keep(fs, p, clock) ==
    IF Exists(fs, p)
    THEN Put(fs, p, [fs[p] EXCEPT !.mtime = clock])
    ELSE Create(fs, p, FileNode(EmptyStr, TRUE, TRUE, clock), clock)

\* open(path, 'w'): the file is created, or truncated, before a byte is encoded
OpenTruncate(fs, p, clock) ==
    IF Exists(fs, p)
    THEN Put(fs, p, [fs[p] EXCEPT !.data = EmptyStr, !.mtime = clock])
    ELSE Create(fs, p, FileNode(EmptyStr, TRUE, TRUE, clock), clock)

\* an encoder that writes one byte per character, as latin-1 does
WrittenData_Latin1(content) ==
    LET t == WriteNewlines(content) IN
    Norm(Str([i \in 1..Len(t.head) |-> t.head[i] % 256], t.pad,
             [i \in 1..Len(t.tail) |-> t.tail[i] % 256]))

\* the bytes f.write(data) sends to the file
WrittenData(content) == Utf8Encode(WriteNewlines(content))

\* the file after those bytes are written at offset 0, where open() left the
\* file position
FileWrite(old, bytes) == StrCat(bytes, StrDrop(old, StrLen(bytes)))

\* path.write_text(content, encoding='utf-8') and the handlers of lines 202-210
WriteText(fs, p, content, clock) ==
    LET file_exists == FileExists(fs, p) IN
    IF Exists(fs, p) /\ ~IsFile(fs, p)
    THEN [fs |-> fs, result |-> Failure("IOError", "Error writing file", "OSError")]
    ELSE IF Exists(fs, p) /\ ~fs[p].w
    THEN [fs |-> fs,
          result |-> Failure("PermissionDenied", "Permission denied writing file", "")]
    ELSE LET opened == OpenTruncate(fs, p, clock) IN
         IF ~Encodable(content)
         THEN [fs |-> opened,
               result |-> Failure("EncodingError", "Cannot encode content as UTF-8",
                                  "UnicodeEncodeError")]
         ELSE [fs |-> Put(opened, p,
                          [opened[p] EXCEPT
                              !.data = FileWrite(opened[p].data,
                                                 WrittenData(content))]),
               result |-> Success(SuccessMessage(file_exists))]

\* [fs, result]: the filesystem the call leaves and what it returns or raises
write_file(fs, raw, content, clock) ==
    LET v == validate_and_sanitize_path(raw) IN
    IF ~v.ok THEN [fs |-> fs, result |-> v.err]
    ELSE IF TargetIsDir(fs, v.path)
    THEN [fs |-> fs,
          result |-> Failure("IsADirectory", "Cannot write to directory", "")]
    ELSE LET m == Mkdir(fs, Parent(v.path), clock) IN
         IF ~m.ok
         THEN [fs |-> fs,
               result |-> Failure("IOError", "Error creating parent directories",
                                  m.exc)]
         ELSE WriteText(m.fs, v.path, content, clock)

-----------------------------------------------------------------------------
(* list_directory *)

\* the code point of a path character
Ord(c) ==
    CASE c = "NUL" -> 0
      [] c = " " -> 32
      [] c = "." -> 46
      [] c = "/" -> 47
      [] c = "D" -> 68
      [] c = "E" -> 69
      [] c = "F" -> 70
      [] c = "d" -> 100
      [] c = "e" -> 101
      [] c = "f" -> 102

\* str.lower()
LowerChar(c) ==
    CASE c = "D" -> "d"
      [] c = "E" -> "e"
      [] c = "F" -> "f"
      [] OTHER -> c

Lower(name) == [i \in 1..Len(name) |-> LowerChar(name[i])]

\* a < b for strings: by code point, a proper prefix first
RECURSIVE StrLess(_, _)
StrLess(a, b) ==
    IF b = << >> THEN FALSE
    ELSE IF a = << >> THEN TRUE
    ELSE IF a[1] = b[1] THEN StrLess(Tail(a), Tail(b))
    ELSE Ord(a[1]) < Ord(b[1])

\* a key that compares names as they are written
SortKey_CaseSensitive(entry) == entry.name

\* key=lambda x: x["name"].lower()
SortKey(entry) == Lower(entry.name)

\* the place list.sort gives e among sorted entries: after every entry whose
\* key is not greater (the sort is stable)
RECURSIVE InsertEntry(_, _)
InsertEntry(e, s) ==
    IF s = << >> THEN <<e>>
    ELSE IF StrLess(SortKey(e), SortKey(s[1])) THEN <<e>> \o s
    ELSE <<s[1]>> \o InsertEntry(e, Tail(s))

\* entries left in the order of their enumeration
SortEntries_None(s) == s

\* entries.sort(key=...)
RECURSIVE SortEntries(_)
SortEntries(s) ==
    IF s = << >> THEN << >> ELSE InsertEntry(Last(s), SortEntries(Front(s)))

\* Modification times are counted in years from 1970, which keeps the far end
\* of datetime's range within the integers of the model checker.
YearOf(mtime) == 1970 + mtime

\* datetime.fromtimestamp(st_mtime) raises ValueError ("year 10000 is out of
\* range") for a time outside datetime.min .. datetime.max
FromTimestampOk(mtime) == YearOf(mtime) >= 1 /\ YearOf(mtime) <= MaxYear

\* datetime.fromtimestamp(st_mtime).isoformat()
IsoFormat(mtime) == <<"iso", mtime>>

\* the entry of child q, lines 258-279; None is << >>, a value v is <<v>>
EntryDict(fs, q) ==
    [name |-> Last(q),
     type |-> IF IsDir(fs, q) THEN "directory" ELSE "file",
     size |-> IF IsFile(fs, q) THEN <<StrLen(fs[q].data)>> ELSE << >>,
     modified |-> <<IsoFormat(fs[q].mtime)>>,
     path |-> q,
     error |-> << >>]

\* the response of lines 298-302
Listing(path, entries) ==
    [directory |-> path, entries |-> entries, total_entries |-> Len(entries)]

\* a degraded entry without the "error" key
DegradedEntry_NoError(q) ==
    [name |-> Last(q),
     type |-> "unknown",
     size |-> << >>,
     modified |-> << >>,
     path |-> q,
     error |-> << >>]

\* the entry of a child whose stat() raised OSError, lines 285-292
DegradedEntry(q) ==
    [name |-> Last(q),
     type |-> "unknown",
     size |-> << >>,
     modified |-> << >>,
     path |-> q,
     error |-> <<"Permission denied or access error">>]

\* an enumeration that descends into the directories below p, as rglob does
IterDirOrders_Recursive(fs, p) ==
    LET c == {q \in DOMAIN fs : Len(q) > Len(p) /\ IsPrefix(p, q)} IN
    {o \in [1..Cardinality(c) -> c] : Range(o) = c}

\* the orders in which path.iterdir() may yield the children of p
IterDirOrders(fs, p) ==
    LET c == Children(fs, p) IN
    {o \in [1..Cardinality(c) -> c] : Range(o) = c}

\* What os.listdir() does when path.iterdir() is first advanced: "ok", or the
\* exception it raises: PermissionError for a directory the process may not
\* read, another OSError (the directory was removed meanwhile, an I/O error),
\* or an exception that is no OSError.
IterDirOutcomes == {"ok", "PermissionError", "OSError", "MemoryError"}

\* a loop that gives up at the first child whose stat() fails
CollectEntries_Abort(fs, order, failing) ==
    IF Range(order) \cap failing # {} \/ \E q \in Range(order) : ~FromTimestampOk(fs[q].mtime)
    THEN [ok |-> FALSE, entries |-> << >>]
    ELSE [ok |-> TRUE, entries |-> [i \in 1..Len(order) |-> EntryDict(fs, order[i])]]

\* the loop of lines 255-292 over the children in the order they are yielded;
\* failing: the children whose entry.stat() raises OSError (removed meanwhile,
\* not accessible).  A ValueError of datetime.fromtimestamp is caught by no
\* handler of the loop and ends it.
RECURSIVE CollectEntries(_, _, _)
CollectEntries(fs, order, failing) ==
    IF order = << >> THEN [ok |-> TRUE, entries |-> << >>]
    ELSE LET q == order[1]
             rest == CollectEntries(fs, Tail(order), failing)
         IN  IF q \in failing
             THEN IF rest.ok
                  THEN [ok |-> TRUE, entries |-> <<DegradedEntry(q)>> \o rest.entries]
                  ELSE rest
             ELSE IF ~FromTimestampOk(fs[q].mtime)
             THEN [ok |-> FALSE, entries |-> << >>]
             ELSE IF rest.ok
                  THEN [ok |-> TRUE, entries |-> <<EntryDict(fs, q)>> \o rest.entries]
                  ELSE rest

\* a listing that answers a failed enumeration with the entries it has: none
Enumerate_Partial(fs, p, order, failing, enum) ==
    LET c == CollectEntries(fs, order, failing) IN
    IF enum = "ok" /\ ~c.ok
    THEN Failure("ValueError", "year is out of range", "ValueError")
    ELSE Success(Listing(p, SortEntries(c.entries)))

\* lines 251-315: the listing of directory p, or the failure of the whole call.
\* The ValueError of datetime.fromtimestamp passes the handlers of lines 310
\* and 313 and is re-raised as it is by line 317-319: a ValueError of none of
\* the kinds of the tool, with the message "year ... is out of range".
Enumerate(fs, p, order, failing, enum) ==
    IF enum = "PermissionError"
    THEN Failure("PermissionDenied", "Permission denied listing directory", "")
    ELSE IF enum = "OSError"
    THEN Failure("IOError", "Error listing directory", "OSError")
    ELSE IF enum # "ok"
    THEN Failure("Unexpected", "Unexpected error listing directory", enum)
    ELSE LET c == CollectEntries(fs, order, failing) IN
         IF c.ok
         THEN Success(Listing(p, SortEntries(c.entries)))
         ELSE Failure("ValueError", "year is out of range", "ValueError")

\* a list_directory that tests the type before the existence
list_directory_TypeFirst(fs, raw, order, failing, enum) ==
    LET v == validate_and_sanitize_path(raw) IN
    IF ~v.ok THEN v.err
    ELSE IF ~IsDir(fs, v.path)
    THEN Failure("NotADirectory", "Path is not a directory", "")
    ELSE IF ~Exists(fs, v.path)
    THEN Failure("NotFound", "Directory not found", "")
    ELSE Enumerate(fs, v.path, order, failing, enum)

\* order: the order path.iterdir() yields the children in; failing: the
\* children whose stat() fails; enum: the outcome of the enumeration itself
list_directory(fs, raw, order, failing, enum) ==
    LET v == validate_and_sanitize_path(raw) IN
    IF ~v.ok THEN v.err
    ELSE IF ~Exists(fs, v.path)
    THEN Failure("NotFound", "Directory not found", "")
    ELSE IF ~IsDir(fs, v.path)
    THEN Failure("NotADirectory", "Path is not a directory", "")
    ELSE Enumerate(fs, v.path, order, failing, enum)

-----------------------------------------------------------------------------
(* The calls a client makes *)

\* file_path and directory_path arguments
RawPaths ==
    { << >>,                               \* ""
      <<" ", " ">>,                        \* "  "
      <<"f", "NUL">>,                      \* "f\x00"
      <<"e", "/", "NUL">>,                 \* "e/\x00"
      <<"f">>,                             \* /d/f
      <<"/", "d", "/", "f">>,              \* /d/f
      <<".", ".", "/", "d", "/", "f">>,    \* /d/f
      <<"e">>,                             \* /d/e
      <<"e", "/", "f">>,                   \* /d/e/f
      <<"e", "/", "e", "/", "f">>,         \* /d/e/e/f
      <<"f", "/", "e">>,                   \* /d/f/e
      <<".">>,                             \* /d
      <<"/">> }                            \* /

\* content arguments
Contents ==
    { Flat(<< >>),                         \* ""
      Flat(<<97>>),                        \* "a"
      Flat(<<233, 97>>),                   \* "éa", three bytes
      Flat(<<97, 13>>),                    \* "a\r"
      Flat(<<NulByte>>),                   \* "\x00"
      Flat(<<55296>>) }                    \* "\ud800", a lone surrogate

\* the regular files /d/f may be when the server starts
InitFiles ==
    { FileNode(Flat(<<97>>), TRUE, TRUE, 0),              \* "a"
      FileNode(Flat(<<195, 169, 13, 10>>), TRUE, TRUE, 0),\* "é\r\n"
      FileNode(Flat(<<NulByte, 97>>), TRUE, TRUE, 0),     \* NUL first
      FileNode(Flat(<<255, NulByte>>), TRUE, TRUE, 0),    \* NUL and invalid UTF-8
      FileNode(Flat(<<255, 97>>), TRUE, TRUE, 0),         \* invalid UTF-8, no NUL
      FileNode(Str(<< >>, ChunkSize - 1, <<NulByte>>), TRUE, TRUE, 0),
                                                          \* NUL is byte 8192
      FileNode(Str(<< >>, ChunkSize, <<NulByte>>), TRUE, TRUE, 0),
                                                          \* NUL is byte 8193
      FileNode(Str(<<97>>, ChunkSize, <<195>>), TRUE, TRUE, 0),
                                                          \* invalid past the chunk
      FileNode(Flat(<<NulByte>>), FALSE, TRUE, 0),        \* NUL, mode 0o200
      FileNode(Flat(<<97>>), TRUE, FALSE, 0) }            \* "a", mode 0o400

\* what /d/f may be when the server starts
InitTargets == InitFiles \cup {DirNode(0), SocketNode(0)}

BaseFs == [q \in {Root, Cwd} |-> DirNode(0)]

NoCall == [op |-> "none", path |-> << >>, content |-> EmptyStr]

NoResult == [ok |-> TRUE, kind |-> "none", value |-> ""]

\* no call runs concurrently
NoThreads == << >>

Fresh ==
    /\ threads = NoThreads
    /\ now = 1
    /\ call = NoCall
    /\ result = NoResult
    /\ before = nodes
    /\ log = << >>

Init ==
    /\ \/ nodes = BaseFs
       \/ \E n \in InitTargets : nodes = Put(BaseFs, Append(Cwd, <<"f">>), n)
    /\ budget = MaxWrites
    /\ Fresh

\* the server starts in a working directory that is empty
SeqInit ==
    /\ nodes = BaseFs
    /\ budget = MaxSeqWrites
    /\ Fresh

\* a read_file that opens the path for appending, which creates a missing file
ReadFile_Touch(raw) ==
    /\ call' = [op |-> "read_file", path |-> raw, content |-> EmptyStr]
    /\ result' = read_file(nodes, raw)
    /\ before' = nodes
    /\ LET v == validate_and_sanitize_path(raw) IN
       nodes' = IF v.ok /\ ~Exists(nodes, v.path) /\ IsDir(nodes, Parent(v.path))
                THEN Create(nodes, v.path, FileNode(EmptyStr, TRUE, TRUE, now), now)
                ELSE nodes
    /\ UNCHANGED <<now, log, budget, threads>>

\* a tool call read_file(file_path)
ReadFile(raw) ==
    /\ call' = [op |-> "read_file", path |-> raw, content |-> EmptyStr]
    /\ result' = read_file(nodes, raw)
    /\ before' = nodes
    /\ UNCHANGED <<nodes, now, log, budget, threads>>

\* a tool call write_file(file_path, content)
WriteFile(raw, content) ==
    /\ budget > 0
    /\ budget' = budget - 1
    /\ LET w == write_file(nodes, raw, content, now) IN
       /\ call' = [op |-> "write_file", path |-> raw, content |-> content]
       /\ result' = w.result
       /\ nodes' = w.fs
       /\ log' = IF w.result.ok
                 THEN Append(log, [path |-> Resolve(raw), content |-> content])
                 ELSE log
    /\ before' = nodes
    /\ now' = now + 1
    /\ UNCHANGED threads

\* What the filesystem does to a call list_directory(raw): [order, failing,
\* enum].  A call that never reaches path.iterdir() meets none of it.
ListEnvironments(fs, raw) ==
    LET v == validate_and_sanitize_path(raw) IN
    IF v.ok /\ IsDir(fs, v.path)
    THEN {[order |-> o, failing |-> f, enum |-> "ok"] :
              o \in IterDirOrders(fs, v.path), f \in SUBSET Children(fs, v.path)}
         \cup {[order |-> << >>, failing |-> {}, enum |-> x] :
                   x \in IterDirOutcomes \ {"ok"}}
    ELSE {[order |-> << >>, failing |-> {}, enum |-> "ok"]}

\* a list_directory that answers from the filesystem as it was before the
\* previous call, as a cache of the listing would
ListDirectory_Stale(raw) ==
    /\ \E env \in ListEnvironments(before, raw) :
          /\ result' = list_directory(before, raw, env.order, env.failing, env.enum)
          /\ call' = [op |-> "list_directory", path |-> raw, content |-> EmptyStr,
                      order |-> env.order, failing |-> env.failing,
                      enum |-> env.enum]
    /\ before' = nodes
    /\ UNCHANGED <<nodes, now, log, budget, threads>>

\* a tool call list_directory(directory_path); the filesystem yields the
\* children in an order of its own
ListDirectory(raw) ==
    /\ \E env \in ListEnvironments(nodes, raw) :
          /\ result' = list_directory(nodes, raw, env.order, env.failing, env.enum)
          /\ call' = [op |-> "list_directory", path |-> raw, content |-> EmptyStr,
                      order |-> env.order, failing |-> env.failing,
                      enum |-> env.enum]
    /\ before' = nodes
    /\ UNCHANGED <<nodes, now, log, budget, threads>>

Next ==
    \/ \E raw \in RawPaths : ReadFile(raw)
    \/ \E raw \in RawPaths, content \in Contents : WriteFile(raw, content)
    \/ \E raw \in RawPaths : ListDirectory(raw)

Spec == Init /\ [][Next]_vars

SeqSpec == SeqInit /\ [][Next]_vars

\* The names of the children the working directory may hold when a listing
\* is asked for: "E" and "e" differ by case only.
ListNames == {<<"E">>, <<"e">>, <<"f">>}

\* what such a child may be: a regular file, a directory, a socket, and a
\* regular file whose modification time lies past the year 9999 (os.utime
\* sets any time; tmpfs, xfs and btrfs keep it)
ListKinds ==
    { FileNode(Flat(<<97, 97>>), TRUE, TRUE, 0),
      DirNode(0),
      SocketNode(0),
      FileNode(Flat(<<97>>), TRUE, TRUE, MaxYear - 1969) }

\* the server starts in a working directory that holds some of these children
ListInit ==
    /\ \E kids \in SUBSET ListNames : \E kind \in [kids -> ListKinds] :
          nodes = [q \in {Root, Cwd} \cup {Append(Cwd, k) : k \in kids} |->
                      IF q \in {Root, Cwd} THEN DirNode(0) ELSE kind[Last(q)]]
    /\ budget = MaxWrites
    /\ Fresh

\* the calls of a client that lists directories and writes one file below a
\* child of the working directory
ListNext ==
    \/ \E raw \in RawPaths : ListDirectory(raw)
    \/ WriteFile(<<"e", "/", "f">>, Flat(<<97>>))

ListSpec == ListInit /\ [][ListNext]_vars

-----------------------------------------------------------------------------
(* write_file called from several threads at once (the thread pool of       *)
(* tests/test_integration.py).  A thread runs the statements of write_file  *)
(* in order; between two system calls of one thread any other thread may    *)
(* run.  The steps: "check" (lines 171-176), "mkdir" (line 180, one         *)
(* os.mkdir per step), "exists" (line 192), "open" and "write" (line 196).  *)

Procs == 1..NumThreads

\* one call of Path.mkdir: the directory to make and its parents flag
Frame(p, parents) == [path |-> p, parents |-> parents]

\* a Path.mkdir whose second attempt, after the parent is made, does not
\* forgive a directory another thread has made meanwhile (exist_ok=False)
MkdirStep_RetryStrict(fs, stack, clock) ==
    LET f == Last(stack) IN
    IF Exists(fs, f.path)
    THEN IF IsDir(fs, f.path) /\ f.parents
         THEN [fs |-> fs, stack |-> Front(stack), exc |-> ""]
         ELSE [fs |-> fs, stack |-> << >>, exc |-> "FileExistsError"]
    ELSE IF IsDir(fs, Parent(f.path))
    THEN [fs |-> Create(fs, f.path, DirNode(clock), clock),
          stack |-> Front(stack), exc |-> ""]
    ELSE IF Exists(fs, Parent(f.path))
    THEN [fs |-> fs, stack |-> << >>, exc |-> "NotADirectoryError"]
    ELSE IF f.parents
    THEN [fs |-> fs,
          stack |-> Front(stack) \o <<Frame(f.path, FALSE),
                                      Frame(Parent(f.path), TRUE)>>,
          exc |-> ""]
    ELSE [fs |-> fs, stack |-> << >>, exc |-> "FileNotFoundError"]

\* One os.mkdir() of Path.mkdir(parents=True, exist_ok=True), for the call on
\* top of the stack: [fs, stack, exc].  FileExistsError and
\* NotADirectoryError are forgiven when the path is a directory; on
\* FileNotFoundError a call with parents=True makes the parent and then tries
\* again without parents.
MkdirStep(fs, stack, clock) ==
    LET f == Last(stack) IN
    IF Exists(fs, f.path)
    THEN IF IsDir(fs, f.path)
         THEN [fs |-> fs, stack |-> Front(stack), exc |-> ""]
         ELSE [fs |-> fs, stack |-> << >>, exc |-> "FileExistsError"]
    ELSE IF IsDir(fs, Parent(f.path))
    THEN [fs |-> Create(fs, f.path, DirNode(clock), clock),
          stack |-> Front(stack), exc |-> ""]
    ELSE IF Exists(fs, Parent(f.path))
    THEN [fs |-> fs, stack |-> << >>, exc |-> "NotADirectoryError"]
    ELSE IF f.parents
    THEN [fs |-> fs,
          stack |-> Front(stack) \o <<Frame(f.path, FALSE),
                                      Frame(Parent(f.path), TRUE)>>,
          exc |-> ""]
    ELSE [fs |-> fs, stack |-> << >>, exc |-> "FileNotFoundError"]

\* a thread about to run write_file(raw, content)
Thread(raw, content) ==
    [pc |-> "check", raw |-> raw, content |-> content, path |-> << >>,
     stack |-> << >>, file_exists |-> FALSE, result |-> NoResult]

\* thread t returns or raises res
Done(t, res) ==
    threads' = [threads EXCEPT ![t].pc = "done", ![t].result = res]

\* lines 171-176
WfCheck(t) ==
    /\ threads[t].pc = "check"
    /\ LET v == validate_and_sanitize_path(threads[t].raw) IN
       IF ~v.ok THEN Done(t, v.err)
       ELSE IF TargetIsDir(nodes, v.path)
       THEN Done(t, Failure("IsADirectory", "Cannot write to directory", ""))
       ELSE threads' = [threads EXCEPT ![t].pc = "mkdir", ![t].path = v.path,
                                       ![t].stack = <<Frame(Parent(v.path), TRUE)>>]
    /\ UNCHANGED <<nodes, now, call, result, before, log, budget>>

\* line 180, one system call of it, and the handler of lines 185-187
WfMkdir(t) ==
    /\ threads[t].pc = "mkdir"
    /\ LET m == MkdirStep(nodes, threads[t].stack, now) IN
       /\ nodes' = m.fs
       /\ IF m.exc # ""
          THEN Done(t, Failure("IOError", "Error creating parent directories", m.exc))
          ELSE threads' = [threads EXCEPT
                              ![t].stack = m.stack,
                              ![t].pc = IF m.stack = << >> THEN "exists" ELSE "mkdir"]
    /\ UNCHANGED <<now, call, result, before, log, budget>>

\* line 192
WfExists(t) ==
    /\ threads[t].pc = "exists"
    /\ threads' = [threads EXCEPT ![t].pc = "open",
                                  ![t].file_exists = FileExists(nodes, threads[t].path)]
    /\ UNCHANGED <<nodes, now, call, result, before, log, budget>>

\* line 196, open(path, 'w') and the encoding of the content, with the
\* handlers of lines 202-210
WfOpen(t) ==
    /\ threads[t].pc = "open"
    /\ LET p == threads[t].path IN
       IF Exists(nodes, p) /\ ~IsFile(nodes, p)
       THEN /\ Done(t, Failure("IOError", "Error writing file", "OSError"))
            /\ UNCHANGED nodes
       ELSE IF Exists(nodes, p) /\ ~nodes[p].w
       THEN /\ Done(t, Failure("PermissionDenied", "Permission denied writing file", ""))
            /\ UNCHANGED nodes
       ELSE /\ nodes' = OpenTruncate(nodes, p, now)
            /\ IF ~Encodable(threads[t].content)
               THEN Done(t, Failure("EncodingError", "Cannot encode content as UTF-8",
                                    "UnicodeEncodeError"))
               ELSE threads' = [threads EXCEPT ![t].pc = "write"]
    /\ UNCHANGED <<now, call, result, before, log, budget>>

\* line 196, the write(2) of the encoded content at the file position of this
\* thread's descriptor, which is 0, and lines 198-200
WfWrite(t) ==
    /\ threads[t].pc = "write"
    /\ LET p == threads[t].path IN
       nodes' = IF Exists(nodes, p)
                THEN Put(nodes, p,
                         [nodes[p] EXCEPT
                             !.data = FileWrite(nodes[p].data,
                                                WrittenData(threads[t].content))])
                ELSE nodes    \* the file was unlinked: the bytes go to no path
    /\ Done(t, Success(SuccessMessage(threads[t].file_exists)))
    /\ UNCHANGED <<now, call, result, before, log, budget>>

\* the file_path arguments of the concurrent calls
ConcPaths ==
    { <<"f">>,                             \* /d/f
      <<"e">>,                             \* /d/e
      <<"e", "/", "f">>,                   \* /d/e/f
      <<"e", "/", "e", "/", "f">>,         \* /d/e/e/f
      <<"e", "/", "e", "/", "e">> }        \* /d/e/e/e

\* their content arguments
ConcContents ==
    { Flat(<< >>),                         \* ""
      Flat(<<97>>),                        \* "a"
      Flat(<<233, 97>>) }                  \* "éa", three bytes

\* every thread has been handed its call; /d/f is missing or a regular file
ConcInit ==
    /\ \/ nodes = BaseFs
       \/ nodes = Put(BaseFs, Append(Cwd, <<"f">>),
                      FileNode(Flat(<<98, 98, 98, 98>>), TRUE, TRUE, 0))
    /\ threads \in [Procs -> {Thread(raw, content) :
                                  raw \in ConcPaths, content \in ConcContents}]
    /\ now = 1
    /\ call = NoCall
    /\ result = NoResult
    /\ before = nodes
    /\ log = << >>
    /\ budget = 0

ConcNext ==
    \E t \in Procs :
        \/ WfCheck(t)
        \/ WfMkdir(t)
        \/ WfExists(t)
        \/ WfOpen(t)
        \/ WfWrite(t)

ConcSpec == ConcInit /\ [][ConcNext]_vars

-----------------------------------------------------------------------------
(* read_file in one thread while write_file runs in another and a process   *)
(* outside the server may remove the file.  The steps of read_file:         *)
(* "rcheck" (lines 111-121), "probe" (line 124, is_binary_file) and "read"  *)
(* (line 130, path.read_text).                                              *)

Reader == "reader"

Writer == "writer"

\* a thread about to run read_file(raw); probed: what the open() of
\* is_binary_file met
ReadThread(raw) ==
    [pc |-> "rcheck", raw |-> raw, content |-> EmptyStr, path |-> << >>,
     stack |-> << >>, file_exists |-> FALSE, result |-> NoResult,
     probed |-> "none"]

\* lines 111-121
RfCheck(t) ==
    /\ threads[t].pc = "rcheck"
    /\ LET v == validate_and_sanitize_path(threads[t].raw) IN
       IF ~v.ok THEN Done(t, v.err)
       ELSE IF ~Exists(nodes, v.path)
       THEN Done(t, Failure("NotFound", "File not found", ""))
       ELSE IF ~IsFile(nodes, v.path)
       THEN Done(t, Failure("NotAFile", "Path is not a file", ""))
       ELSE threads' = [threads EXCEPT ![t].pc = "probe", ![t].path = v.path]
    /\ UNCHANGED <<nodes, now, call, result, before, log, budget>>

\* what open(file_path, 'rb') meets at path p
Probed(fs, p) ==
    IF ~Exists(fs, p) THEN "missing"
    ELSE IF ~IsFile(fs, p) THEN "special"
    ELSE IF ~fs[p].r THEN "unreadable"
    ELSE "file"

\* lines 124-126, and line 147 for the PermissionError of the probe
RfProbe(t) ==
    /\ threads[t].pc = "probe"
    /\ LET p == threads[t].path
           b == is_binary_file(nodes, p)
       IN  threads' =
             [threads EXCEPT
                 ![t].probed = Probed(nodes, p),
                 ![t].pc = IF b.raised \/ b.value THEN "done" ELSE "read",
                 ![t].result =
                     IF b.raised
                     THEN Failure("Unexpected", "Unexpected error reading file",
                                  "PermissionError")
                     ELSE IF b.value
                     THEN Failure("BinaryFile", "Cannot read binary file", "")
                     ELSE NoResult]
    /\ UNCHANGED <<nodes, now, call, result, before, log, budget>>

\* lines 129-142; read_text of a path that is no longer there raises
\* FileNotFoundError, an OSError (line 140)
RfRead(t) ==
    /\ threads[t].pc = "read"
    /\ LET p == threads[t].path IN
       IF ~IsFile(nodes, p)
       THEN Done(t, Failure("IOError", "Error reading file", "OSError"))
       ELSE Done(t, ReadText(nodes, p))
    /\ UNCHANGED <<nodes, now, call, result, before, log, budget>>

\* A process outside the server removes the regular file p while read_file is
\* past its existence check; the removal is noted in the history.
Unlink(p) ==
    /\ threads[Reader].pc \in {"probe", "read"}
    /\ IsFile(nodes, p)
    /\ nodes' = [q \in DOMAIN nodes \ {p} |->
                    IF q = Parent(p) THEN [nodes[q] EXCEPT !.mtime = now]
                    ELSE nodes[q]]
    /\ log' = Append(log, [path |-> p, content |-> EmptyStr])
    /\ UNCHANGED <<now, call, result, before, budget, threads>>

\* the file_path arguments of the two threads
RacePaths ==
    { <<"f">>,                             \* /d/f
      <<"e">> }                            \* /d/e

\* what /d/f is when the two calls start
RaceFiles ==
    { FileNode(Flat(<<98, 98, 98, 98>>), TRUE, TRUE, 0),  \* "bbbb"
      FileNode(Flat(<<98, NulByte>>), TRUE, TRUE, 0),     \* "b\x00"
      FileNode(Flat(<<98>>), FALSE, TRUE, 0) }            \* "b", mode 0o200

RaceInit ==
    /\ \E n \in RaceFiles : nodes = Put(BaseFs, Append(Cwd, <<"f">>), n)
    /\ \E r \in RacePaths, w \in RacePaths, c \in ConcContents :
          threads = [t \in {Reader, Writer} |->
                        IF t = Reader THEN ReadThread(r) ELSE Thread(w, c)]
    /\ now = 1
    /\ call = NoCall
    /\ result = NoResult
    /\ before = nodes
    /\ log = << >>
    /\ budget = 0

RaceNext ==
    \/ RfCheck(Reader)
    \/ RfProbe(Reader)
    \/ RfRead(Reader)
    \/ WfCheck(Writer)
    \/ WfMkdir(Writer)
    \/ WfExists(Writer)
    \/ WfOpen(Writer)
    \/ WfWrite(Writer)
    \/ \E p \in {Resolve(raw) : raw \in RacePaths} : Unlink(p)

RaceSpec == RaceInit /\ [][RaceNext]_vars

-----------------------------------------------------------------------------
(* The tool functions called with an argument that is null.  An argument is *)
(* None or Some(v).                                                         *)

None == << >>

Some(v) == <<v>>

\* an exception that no handler of the tool function catches
Fault(exc) == [ok |-> FALSE, kind |-> "Fault", msg |-> "", detail |-> exc]

\* line 47: "not file_path" is true of None
EmptyPathError == Failure("InvalidPath", "File path cannot be empty", "")

\* read_file(file_path) where file_path may be None
read_file_arg(fs, arg) ==
    IF arg = None THEN EmptyPathError ELSE read_file(fs, arg[1])

\* write_file(file_path, content) where either may be None; len(content) at
\* line 167 is evaluated before the try statement of line 169
write_file_arg(fs, arg, content, clock) ==
    IF content = None THEN [fs |-> fs, result |-> Fault("TypeError")]
    ELSE IF arg = None THEN [fs |-> fs, result |-> EmptyPathError]
    ELSE write_file(fs, arg[1], content[1], clock)

\* list_directory(directory_path) where directory_path may be None
list_directory_arg(fs, arg, order, failing, enum) ==
    IF arg = None THEN EmptyPathError
    ELSE list_directory(fs, arg[1], order, failing, enum)

ArgPaths ==
    {None} \cup {Some(raw) : raw \in {<< >>, <<" ", " ">>, <<"f">>, <<"e">>,
                                       <<"e", "/", "f">>}}

ArgContents == {None, Some(Flat(<< >>)), Some(Flat(<<97>>))}

ReadFileArg(arg) ==
    /\ call' = [op |-> "read_file", path |-> arg, content |-> None]
    /\ result' = read_file_arg(nodes, arg)
    /\ before' = nodes
    /\ UNCHANGED <<nodes, now, log, budget, threads>>

WriteFileArg(arg, content) ==
    /\ budget > 0
    /\ budget' = budget - 1
    /\ LET w == write_file_arg(nodes, arg, content, now) IN
       /\ call' = [op |-> "write_file", path |-> arg, content |-> content]
       /\ result' = w.result
       /\ nodes' = w.fs
    /\ before' = nodes
    /\ now' = now + 1
    /\ UNCHANGED <<log, threads>>

ListDirectoryArg(arg) ==
    /\ \E env \in IF arg = None
                   THEN {[order |-> << >>, failing |-> {}, enum |-> "ok"]}
                   ELSE ListEnvironments(nodes, arg[1]) :
          /\ result' = list_directory_arg(nodes, arg, env.order, env.failing,
                                          env.enum)
          /\ call' = [op |-> "list_directory", path |-> arg, content |-> None,
                      order |-> env.order, failing |-> env.failing,
                      enum |-> env.enum]
    /\ before' = nodes
    /\ UNCHANGED <<nodes, now, log, budget, threads>>

ArgInit == Init

ArgNext ==
    \/ \E arg \in ArgPaths : ReadFileArg(arg)
    \/ \E arg \in ArgPaths, content \in ArgContents : WriteFileArg(arg, content)
    \/ \E arg \in ArgPaths : ListDirectoryArg(arg)

ArgSpec == ArgInit /\ [][ArgNext]_vars

-----------------------------------------------------------------------------
(* Vocabulary of the properties *)

IsRead == call.op = "read_file"

IsWrite == call.op = "write_file"

IsList == call.op = "list_directory"

\* the call's path argument passed validation
ValidPath == validate_and_sanitize_path(call.path).ok

\* the path the call's argument resolves to
Target == Resolve(call.path)

\* the call was made on a path that was a regular file
OnFile == ValidPath /\ IsFile(before, Target)

\* byte x occurs among the first n bytes of d
InFirst(d, x, n) ==
    \/ \E i \in 1..Len(d.head) : i <= n /\ d.head[i] = x
    \/ \E i \in 1..Len(d.tail) : Len(d.head) + d.pad + i <= n /\ d.tail[i] = x

\* the probe of the first 8192 bytes finds a NUL byte
NulInChunk(d) == InFirst(d, 0, 8192)

\* text t holds a carriage return
HasCR(t) == 13 \in Range(t.head) \cup Range(t.tail)

\* the text read_file is to return for c once written: c itself
RoundTrips(c) == ~HasCR(c) /\ ~NulInChunk(Utf8Encode(c))

-----------------------------------------------------------------------------
(* C1: a successful write_file(p, c) immediately followed by read_file(p)   *)
(* returns exactly c, for any content and at any depth of missing ancestors. *)
(* As stated it fails: a carriage return in c is read back as a line feed,   *)
(* and a NUL character in c makes the file binary for read_file.             *)

C1_Original ==
    [][(IsWrite /\ result.ok /\ call'.op = "read_file" /\ call'.path = call.path)
          => (result'.ok /\ result'.value = call.content)]_vars

\* C1 as amended: the read returns exactly c when c holds no carriage return,
\* its encoding holds no NUL byte among the first 8192 bytes and the file may
\* be opened for reading; a c with a NUL byte there fails BinaryFile, and a c
\* with a carriage return comes back with a line feed in its place.
C1_RoundTrip ==
    [][(IsWrite /\ result.ok /\ call'.op = "read_file" /\ call'.path = call.path
           /\ nodes[Target].r)
          => /\ RoundTrips(call.content)
                  => (result'.ok /\ result'.value = call.content)
             /\ NulInChunk(Utf8Encode(call.content)) => result'.kind = "BinaryFile"
             /\ (HasCR(call.content) /\ result'.ok)
                  => (~HasCR(result'.value) /\ result'.value # call.content)]_vars

\* a text is read back from a file that write_file made three levels below
\* directories that did not exist
C1_Witness ==
    /\ IsRead /\ result.ok
    /\ Len(log) = 1
    /\ log[1].path = Target
    /\ Len(Target) = 4
    /\ ~Exists(BaseFs, Front(Front(Target)))
    /\ log[1].content = Flat(<<233, 97>>)
    /\ result.value = log[1].content

-----------------------------------------------------------------------------
(* C2: after write_file(p, c1) and then write_file(p, c2) the file content  *)
(* and read_file(p) are exactly c2, never a concatenation or a mix.  As      *)
(* stated it fails for read_file: a c2 with a carriage return or a NUL       *)
(* character is not what read_file returns.                                  *)

\* the last two successful writes went to the path of the call, the second
\* of them being the call itself
WroteTwice ==
    /\ IsWrite /\ result.ok
    /\ Len(log) >= 2
    /\ log[Len(log) - 1].path = Target
    /\ log[Len(log)].path = Target

C2_Original ==
    [][(WroteTwice /\ call'.op = "read_file" /\ call'.path = call.path)
          => /\ nodes[Target].data = Utf8Encode(call.content)
             /\ result'.ok
             /\ result'.value = call.content]_vars

\* C2 as amended: the file holds exactly the UTF-8 encoding of c2, with no
\* byte of c1; read_file(p) returns exactly c2 when c2 holds no carriage
\* return and no NUL byte among the first 8192 bytes of its encoding and the
\* file may be opened for reading.
C2_Overwrite ==
    [][(WroteTwice /\ call'.op = "read_file" /\ call'.path = call.path)
          => /\ nodes[Target].data = Utf8Encode(call.content)
             /\ (RoundTrips(call.content) /\ nodes[Target].r)
                  => (result'.ok /\ result'.value = call.content)]_vars

\* "a" is read from a file that held the three bytes of "éa" before
C2_Witness ==
    /\ IsRead /\ result.ok
    /\ Len(log) = 2
    /\ log[1].path = Target /\ log[2].path = Target
    /\ log[1].content = Flat(<<233, 97>>)
    /\ log[2].content = Flat(<<97>>)
    /\ result.value = Flat(<<97>>)

-----------------------------------------------------------------------------
(* C3: for every non-empty, NUL-free path that resolves to an existing      *)
(* regular file, read_file returns exactly the UTF-8-decoded content of the  *)
(* file.  As stated it fails: "\r\n" in the file is returned as "\n", a file *)
(* with a NUL byte in its first 8192 bytes is refused, and so is a file      *)
(* that may not be opened.                                                   *)

\* t is the text whose UTF-8 encoding is d
DecodesTo(d, t) == Encodable(t) /\ Utf8Encode(t) = d

C3_Original ==
    (IsRead /\ call.path # << >> /\ ~HasNulChar(call.path) /\ OnFile
        /\ Decodable(before[Target].data))
      => (result.ok /\ DecodesTo(before[Target].data, result.value))

\* C3 as amended: for a file that may be opened for reading, holds no NUL
\* byte in its first 8192 bytes and is valid UTF-8, read_file returns the
\* decoded content of the whole file: exactly, when the file holds no
\* carriage return, and otherwise with "\n" for each "\r\n" and lone "\r".
C3_ReadWhole ==
    (IsRead /\ call.path # << >> /\ ~HasNulChar(call.path) /\ OnFile
        /\ Decodable(before[Target].data)
        /\ before[Target].r
        /\ ~NulInChunk(before[Target].data))
      => /\ result.ok
         /\ ~StrHas(before[Target].data, 13)
              => DecodesTo(before[Target].data, result.value)
         /\ StrHas(before[Target].data, 13)
              => /\ ~HasCR(result.value)
                 /\ ~DecodesTo(before[Target].data, result.value)

\* a file of 8193 bytes is returned whole, its last character a NUL
C3_Witness ==
    /\ IsRead /\ result.ok /\ OnFile
    /\ StrLen(before[Target].data) = 8193
    /\ StrLen(result.value) = 8193
    /\ result.value.tail = <<0>>

-----------------------------------------------------------------------------
(* C4: read_file of a regular file whose first 8192 bytes hold a NUL byte   *)
(* always fails BinaryFile.  As stated it fails for a file the process may  *)
(* not open: the probe raises and the call fails with another kind.         *)

C4_Original ==
    (IsRead /\ OnFile /\ NulInChunk(before[Target].data))
      => (~result.ok /\ result.kind = "BinaryFile"
             /\ result.msg = "Cannot read binary file")

\* C4 as amended: ... of a regular file that may be opened for reading ...
C4_Binary ==
    (IsRead /\ OnFile /\ NulInChunk(before[Target].data) /\ before[Target].r)
      => (~result.ok /\ result.kind = "BinaryFile"
             /\ result.msg = "Cannot read binary file")

\* the only NUL byte is the last byte of the chunk, byte 8192
C4_Witness ==
    /\ IsRead /\ OnFile
    /\ before[Target].data = Str(<< >>, 8191, <<0>>)
    /\ result.kind = "BinaryFile"

-----------------------------------------------------------------------------
(* C5: read_file fails with the kind of the first check that fails, in the  *)
(* order path validation, existence, regular file, binary prefix, UTF-8.    *)
(* As stated it fails for a file the process may not open, whose binary     *)
(* prefix is never examined.                                                *)

\* the kind of the first of the five checks that fails, "Ok" when none does
FirstFailing(fs, raw) ==
    IF raw = << >> \/ Strip(raw) = << >> \/ "NUL" \in Range(raw) THEN "InvalidPath"
    ELSE IF Resolve(raw) \notin DOMAIN fs THEN "NotFound"
    ELSE IF fs[Resolve(raw)].kind # "file" THEN "NotAFile"
    ELSE IF NulInChunk(fs[Resolve(raw)].data) THEN "BinaryFile"
    ELSE IF ~Decodable(fs[Resolve(raw)].data) THEN "EncodingError"
    ELSE "Ok"

C5_Original ==
    (IsRead /\ FirstFailing(before, call.path) # "Ok")
      => result.kind = FirstFailing(before, call.path)

\* C5 as amended: ... for a path that is not a regular file the process may
\* not open ...; the call succeeds exactly when no check fails.
C5_CheckOrder ==
    (IsRead /\ (OnFile => before[Target].r))
      => result.kind = FirstFailing(before, call.path)

\* invalid UTF-8 past the chunk, no NUL byte: EncodingError
C5_Witness ==
    /\ IsRead /\ OnFile
    /\ before[Target].data = Str(<<97>>, 8192, <<195>>)
    /\ result.kind = "EncodingError"

-----------------------------------------------------------------------------
(* C6: read_file of an existing regular file that cannot be opened because  *)
(* of access rights fails with the PermissionDenied kind, neither           *)
(* BinaryFile nor Unexpected.                                               *)

C6_PermissionDenied ==
    (IsRead /\ OnFile /\ ~before[Target].r)
      => (~result.ok /\ result.kind = "PermissionDenied")

-----------------------------------------------------------------------------
(* C7: write_file on a path that resolves to an existing directory fails    *)
(* IsADirectory, "Cannot write to directory", for every content, and leaves *)
(* the directory and everything under it as they were.                      *)

C7_IsADirectory ==
    (IsWrite /\ ValidPath /\ IsDir(before, Target))
      => /\ ~result.ok
         /\ result.kind = "IsADirectory"
         /\ result.msg = "Cannot write to directory"
         /\ nodes = before

\* a text is written to a directory that holds an entry
C7_Witness ==
    /\ IsWrite /\ ValidPath
    /\ IsDir(before, Target)
    /\ Children(before, Target) # {}
    /\ call.content = Flat(<<97>>)
    /\ result.kind = "IsADirectory"

-----------------------------------------------------------------------------
(* C8: write_file to a path whose ancestor directories are partly or wholly *)
(* missing creates every missing ancestor as a directory and then the file; *)
(* ancestors that are directories already are left in place; after success  *)
(* every ancestor of the target is a directory.                             *)

\* no ancestor of p is something other than a directory
AncestorsClear(fs, p) == \A a \in Ancestors(p) : Exists(fs, a) => IsDir(fs, a)

-----------------------------------------------------------------------------
(* C9: a successful write_file says "created" exactly when the target did   *)
(* not exist before the write and "overwrote" exactly when it did.          *)

C9_Message ==
    (IsWrite /\ result.ok)
      => /\ result.value \in {"created", "overwrote"}
         /\ result.value = "created" <=> ~Exists(before, Target)
         /\ result.value = "overwrote" <=> Exists(before, Target)

\* a file that held other bytes is overwritten
C9_Witness ==
    /\ IsWrite /\ result.ok
    /\ result.value = "overwrote"
    /\ IsFile(before, Target)
    /\ before[Target].data # nodes[Target].data

-----------------------------------------------------------------------------
(* C10: for each of the three tools a path string that holds a NUL          *)
(* character fails InvalidPath, "Invalid characters in file path", and the  *)
(* filesystem is unchanged: write_file creates no file and no directory.    *)

C10_NulPath ==
    ((IsRead \/ IsWrite \/ IsList) /\ "NUL" \in Range(call.path))
      => /\ ~result.ok
         /\ result.kind = "InvalidPath"
         /\ result.msg = "Invalid characters in file path"
         /\ nodes = before

\* write_file("e/\x00", "a"), where e does not exist
C10_Witness ==
    /\ IsWrite
    /\ call.path = <<"e", "/", "NUL">>
    /\ call.content = Flat(<<97>>)
    /\ ~Exists(before, Append(Cwd, <<"e">>))
    /\ result.kind = "InvalidPath"

-----------------------------------------------------------------------------
(* C11 *)

\* the path argument of the call is the empty string or whitespace only
BlankCall == \A i \in 1..Len(call.path) : call.path[i] = " "

\* C11: each of read_file, write_file and list_directory called with a path
\* that is empty or only whitespace fails with InvalidPath and the message
\* "File path cannot be empty", whatever the filesystem holds (no other check
\* comes first), and leaves the filesystem as it was.
C11_BlankPath ==
    (call.op # "none" /\ BlankCall) =>
        /\ ~result.ok
        /\ result.kind = "InvalidPath"
        /\ result.msg = "File path cannot be empty"
        /\ nodes = before

C11_Witness ==
    /\ IsWrite
    /\ call.path = <<" ", " ">>
    /\ Exists(before, Append(Cwd, <<"f">>))
    /\ result.kind = "InvalidPath"

-----------------------------------------------------------------------------
(* C12 *)

\* the listing a successful list_directory returned
Entries == result.value.entries

ListedOk == IsList /\ result.ok

\* C12: a successful list_directory returns exactly one entry per immediate
\* child of the directory: as many entries as children, every child's path
\* among them, nothing nested deeper; total_entries is the length of entries
\* and directory the absolute path; an empty directory gives entries = [] and
\* total_entries = 0.
C12_OneEntryPerChild ==
    ListedOk =>
        LET kids == Children(before, Target) IN
        /\ Len(Entries) = Cardinality(kids)
        /\ {Entries[i].path : i \in 1..Len(Entries)} = kids
        /\ \A i \in 1..Len(Entries) : Entries[i].name = Last(Entries[i].path)
        /\ result.value.total_entries = Len(Entries)
        /\ result.value.directory = Target
        /\ (kids = {} => Entries = << >> /\ result.value.total_entries = 0)

C12_Witness ==
    /\ ListedOk
    /\ Target = Cwd
    /\ Exists(before, Cwd \o << <<"e">>, <<"f">> >>)
    /\ Len(Entries) = 3

-----------------------------------------------------------------------------
(* C13 *)

\* the place of child q in the order the filesystem enumerated the children
PosIn(order, q) == CHOOSE i \in 1..Len(order) : order[i] = q

\* C13: the entries of a successful list_directory are in ascending order of
\* their lower-cased names; two entries whose names are equal but for case
\* stand in the order in which the filesystem enumerated them; a degraded
\* "unknown" entry takes its place by the same key.
C13_Sorted ==
    ListedOk =>
        \A i, j \in 1..Len(Entries) :
            i < j =>
                /\ ~StrLess(Lower(Entries[j].name), Lower(Entries[i].name))
                /\ Lower(Entries[i].name) = Lower(Entries[j].name) =>
                       PosIn(call.order, Entries[i].path)
                           < PosIn(call.order, Entries[j].path)

C13_Witness ==
    /\ ListedOk
    /\ Len(Entries) = 3
    /\ call.order[1] = Append(Cwd, <<"f">>)
    /\ Entries[1].name = <<"e">>
    /\ Entries[2].name = <<"E">>
    /\ Entries[2].type = "unknown"
    /\ Entries[3].name = <<"f">>

-----------------------------------------------------------------------------
(* C14 *)

\* size is a non-negative integer, not null
HasSize(entry) == entry.size # << >> /\ entry.size[1] >= 0

\* C14: in every list_directory result every entry has a non-negative integer
\* size if and only if its type is "file"; the size of a "directory" and of an
\* "unknown" entry is null.  A child that is neither a regular file nor a
\* directory (a socket, a FIFO, a device) is listed with type "file" and size
\* null, which this statement excludes.
C14_SizeIffFile ==
    ListedOk =>
        \A i \in 1..Len(Entries) :
            /\ HasSize(Entries[i]) <=> Entries[i].type = "file"
            /\ Entries[i].type \in {"directory", "unknown"} =>
                   Entries[i].size = << >>

-----------------------------------------------------------------------------
(* C15 *)

\* list_directory reached path.iterdir() and the enumeration itself worked
Enumerated ==
    IsList /\ ValidPath /\ IsDir(before, Target) /\ call.enum = "ok"

\* the children whose stat() succeeded
Stated == Children(before, Target) \ call.failing

\* the entry the listing has for child q
EntryOf(q) == Entries[CHOOSE i \in 1..Len(Entries) : Entries[i].path = q]

\* the call succeeded with one entry per child: a degraded one for each child
\* whose stat() failed, the normal metadata for every other child
AllChildrenListed ==
    /\ result.ok
    /\ Len(Entries) = Cardinality(Children(before, Target))
    /\ \A q \in Children(before, Target) : \E i \in 1..Len(Entries) : Entries[i].path = q
    /\ \A q \in call.failing :
          /\ EntryOf(q).name = Last(q)
          /\ EntryOf(q).type = "unknown"
          /\ EntryOf(q).size = << >>
          /\ EntryOf(q).modified = << >>
          /\ EntryOf(q).error = <<"Permission denied or access error">>
    /\ \A q \in Stated :
          /\ EntryOf(q).name = Last(q)
          /\ EntryOf(q).type = (IF before[q].kind = "dir" THEN "directory" ELSE "file")
          /\ EntryOf(q).size = (IF before[q].kind = "file"
                                THEN <<StrLen(before[q].data)>> ELSE << >>)
          /\ EntryOf(q).modified = <<IsoFormat(before[q].mtime)>>
          /\ EntryOf(q).error = << >>

-----------------------------------------------------------------------------
(* C16 *)

\* list_directory reached path.iterdir() and the enumeration itself failed
EnumerationFailed ==
    IsList /\ ValidPath /\ IsDir(before, Target) /\ call.enum # "ok"

\* C16 as stated: a directory that cannot be enumerated fails the whole call,
\* with PermissionDenied for a permission denial and with Unexpected for any
\* other enumeration error.
C16_Original ==
    EnumerationFailed =>
        /\ ~result.ok
        /\ IF call.enum = "PermissionError"
           THEN /\ result.kind = "PermissionDenied"
                /\ result.msg = "Permission denied listing directory"
           ELSE /\ result.kind = "Unexpected"
                /\ result.msg = "Unexpected error listing directory"

\* C16: a directory that cannot be enumerated fails the whole call and gives
\* no listing: PermissionDenied ("Permission denied listing directory") for a
\* permission denial, IOError ("Error listing directory") for any other
\* OSError, Unexpected ("Unexpected error listing directory", with the
\* exception's message) for an exception that is no OSError.
C16_DirectoryFailure ==
    EnumerationFailed =>
        /\ ~result.ok
        /\ call.enum = "PermissionError" =>
              /\ result.kind = "PermissionDenied"
              /\ result.msg = "Permission denied listing directory"
        /\ call.enum = "OSError" =>
              /\ result.kind = "IOError"
              /\ result.msg = "Error listing directory"
        /\ call.enum \notin {"PermissionError", "OSError"} =>
              /\ result.kind = "Unexpected"
              /\ result.msg = "Unexpected error listing directory"
              /\ result.detail = call.enum

C16_Witness ==
    /\ EnumerationFailed
    /\ call.enum = "OSError"
    /\ Cardinality(Children(before, Target)) = 3
    /\ result.kind = "IOError"

-----------------------------------------------------------------------------
(* C17 *)

\* C17: after the path is validated list_directory tests existence, then the
\* type: a path that does not exist fails NotFound ("Directory not found"), a
\* path that exists and is no directory fails NotADirectory ("Path is not a
\* directory"); in neither case is there a listing.
C17_ExistenceThenType ==
    (IsList /\ ValidPath) =>
        /\ ~Exists(before, Target) =>
              /\ ~result.ok
              /\ result.kind = "NotFound"
              /\ result.msg = "Directory not found"
        /\ (Exists(before, Target) /\ before[Target].kind # "dir") =>
              /\ ~result.ok
              /\ result.kind = "NotADirectory"
              /\ result.msg = "Path is not a directory"

C17_Witness ==
    /\ IsList
    /\ ValidPath
    /\ Exists(before, Target)
    /\ before[Target].kind = "file"
    /\ result.kind = "NotADirectory"

-----------------------------------------------------------------------------
(* C18 *)

\* the kinds of failure the tools name
Taxonomy ==
    {"InvalidPath", "NotFound", "NotAFile", "NotADirectory", "IsADirectory",
     "BinaryFile", "EncodingError", "PermissionDenied", "IOError", "Unexpected"}

\* C18: every call of read_file, write_file and list_directory ends with a
\* success payload or with a failure of one of the kinds of the taxonomy: an
\* internal exception that is none of them is reported as Unexpected.  The
\* ValueError datetime.fromtimestamp raises for a child whose modification
\* time is past the year 9999 leaves list_directory as it is, with no kind of
\* the taxonomy and without the words "Unexpected error".
C18_Boundary ==
    call.op # "none" => (result.ok \/ result.kind \in Taxonomy)

-----------------------------------------------------------------------------
(* C19 *)

\* every concurrent call has returned or raised
AllDone == threads # NoThreads /\ \A t \in Procs : threads[t].pc = "done"

\* the resolved path of thread t's call
PathOf(t) == Resolve(threads[t].raw)

DistinctPaths == \A t, u \in Procs : t # u => PathOf(t) # PathOf(u)

\* no path of a call is an ancestor directory of the path of another call
NoPathAbove == \A t, u \in Procs : t # u => ~IsPrefix(PathOf(t), PathOf(u))

\* every call succeeded, said "created" for a path that did not exist, and
\* its file holds the content of that call
AllWritten ==
    \A t \in Procs :
        /\ threads[t].result.ok
        /\ ~Exists(before, PathOf(t)) => threads[t].result.value = "created"
        /\ IsFile(nodes, PathOf(t))
        /\ nodes[PathOf(t)].data = Utf8Encode(threads[t].content)

-----------------------------------------------------------------------------
(* C20 *)

SamePath == \A t, u \in Procs : PathOf(t) = PathOf(u)

\* C20: once concurrent write_file calls on one path have all returned
\* successfully, the file holds exactly the content of one of the calls, never
\* a combination of several.  Each thread truncates the file when it opens it
\* and writes its bytes at offset 0 later: a short content written after a
\* long one replaces the head of the long one and leaves its tail.
C20_LastWriterWins ==
    (AllDone /\ SamePath /\ \A t \in Procs : threads[t].result.ok) =>
        \E t \in Procs : nodes[PathOf(t)].data = Utf8Encode(threads[t].content)

-----------------------------------------------------------------------------
(* C21 *)

\* p is normalized: no component is empty, "." or "..", none holds a "/"
IsNormalized(p) ==
    \A i \in 1..Len(p) :
        /\ p[i] \notin {<< >>, <<".">>, <<".", ".">>}
        /\ "/" \notin Range(p[i])

\* the path argument starts at the root
AbsoluteArg == call.path # << >> /\ call.path[1] = "/"

\* the path argument has a ".." segment
DotDotArg == <<".", ".">> \in Range(SplitSlash(call.path, << >>))

-----------------------------------------------------------------------------
(* C22 *)

\* C22: is_binary_file looks at the first 8192 bytes only and answers true if
\* and only if a NUL byte is among them: for a regular file that may be opened
\* it never raises, read_file fails BinaryFile exactly when the prefix holds a
\* NUL byte, and a file whose NUL bytes start at offset 8192 and an empty file
\* are not binary.
C22_Prefix ==
    (IsRead /\ OnFile /\ before[Target].r) =>
        LET d == before[Target].data
            b == is_binary_file(before, Target)
        IN  /\ ~b.raised
            /\ b.value <=> NulInChunk(d)
            /\ result.kind = "BinaryFile" <=> NulInChunk(d)
            /\ StrLen(d) = 0 => ~b.value

C22_Witness ==
    /\ IsRead
    /\ OnFile
    /\ before[Target].data = Str(<< >>, 8192, <<0>>)
    /\ ~is_binary_file(before, Target).value
    /\ result.ok

-----------------------------------------------------------------------------
(* C23 *)

\* the read_file call of the reader thread has returned or raised
ReadDone == threads # NoThreads /\ Reader \in DOMAIN threads
                /\ threads[Reader].pc = "done"

\* C23: is_binary_file fails closed.  When the file cannot be opened for a
\* reason other than a permission error (it is missing, it was removed after
\* the existence check of read_file) is_binary_file returns True without
\* raising and read_file fails BinaryFile; only a permission error is raised
\* to the caller.
C23_FailsClosed ==
    /\ \A p \in {Resolve(raw) : raw \in RacePaths} :
          LET b == is_binary_file(nodes, p) IN
          /\ ~IsFile(nodes, p) => (~b.raised /\ b.value)
          /\ b.raised => (IsFile(nodes, p) /\ ~nodes[p].r)
    /\ ReadDone =>
          /\ threads[Reader].probed \in {"missing", "special"} =>
                /\ ~threads[Reader].result.ok
                /\ threads[Reader].result.kind = "BinaryFile"
                /\ threads[Reader].result.msg = "Cannot read binary file"
          /\ (~threads[Reader].result.ok
                  /\ threads[Reader].result.kind = "Unexpected") =>
                /\ threads[Reader].probed = "unreadable"
                /\ threads[Reader].result.detail = "PermissionError"

C23_Witness ==
    /\ ReadDone
    /\ log # << >>
    /\ threads[Reader].probed = "missing"
    /\ IsFile(before, PathOf(Reader))
    /\ before[PathOf(Reader)].data = Flat(<<98, 98, 98, 98>>)
    /\ threads[Reader].result.kind = "BinaryFile"

-----------------------------------------------------------------------------
(* C24 *)

\* the call was made with a required argument that is null
MissingArgument ==
    /\ call.op # "none"
    /\ \/ call.path = None
       \/ IsWrite /\ call.content = None

\* C24: a call with a missing (null) required argument fails as the call
\* with an empty path does, InvalidPath "File path cannot be empty", and not
\* with an unhandled fault or with Unexpected.
C24_MissingArgument ==
    MissingArgument =>
        /\ ~result.ok
        /\ result.kind = "InvalidPath"
        /\ result = read_file_arg(before, Some(<< >>))

-----------------------------------------------------------------------------
(* C25 *)

\* a call list_directory is followed by the same call on the same filesystem:
\* the same argument, the same children failing their stat(), the same outcome
\* of the enumeration; the order of the enumeration is free
ListedAgain ==
    /\ IsList
    /\ call'.op = "list_directory"
    /\ call'.path = call.path
    /\ call'.failing = call.failing
    /\ call'.enum = call.enum
    /\ before = nodes
    /\ nodes' = nodes

\* no two children of the listed directory have names equal but for case
NoCaseTies ==
    \A a, b \in Children(nodes, Target) :
        Lower(Last(a)) = Lower(Last(b)) => a = b

\* C25 as stated: two calls of list_directory on the same directory with no
\* filesystem change in between return identical results, whatever the order
\* in which the filesystem enumerates the children.
C25_Original == [][ListedAgain => result' = result]_vars

\* C25: two calls of list_directory on the same directory with no filesystem
\* change in between return identical results whatever the enumeration order,
\* provided no two children have names that are equal ignoring case (such
\* children keep the order of their enumeration).
C25_Deterministic ==
    [][(ListedAgain /\ (ValidPath => NoCaseTies)) => result' = result]_vars

C25_Witness ==
    /\ ListedOk
    /\ NoCaseTies
    /\ Len(Entries) = 2
    /\ Entries[1].name = <<"E">>
    /\ Entries[2].name = <<"f">>
    /\ call.order = <<Entries[2].path, Entries[1].path>>

-----------------------------------------------------------------------------
(* C26 *)

\* C26: in every entry of a list_directory result the three marks of a
\* degraded entry come together or not at all: the type is "unknown", the
\* "error" key is present, "modified" is null; they mark the children whose
\* stat() failed and no other.
C26_DegradedMarks ==
    ListedOk =>
        \A i \in 1..Len(Entries) :
            /\ (Entries[i].type = "unknown") <=> (Entries[i].error # << >>)
            /\ (Entries[i].type = "unknown") <=> (Entries[i].modified = << >>)
            /\ (Entries[i].type = "unknown") <=> (Entries[i].path \in call.failing)

C26_Witness ==
    /\ ListedOk
    /\ Len(Entries) = 3
    /\ Entries[1].type = "unknown" /\ Entries[1].error # << >>
          /\ Entries[1].modified = << >>
    /\ Entries[2].type = "directory" /\ Entries[2].error = << >>
          /\ Entries[2].modified # << >>
    /\ Entries[3].type = "file" /\ Entries[3].size = << >>
          /\ Entries[3].modified # << >>

-----------------------------------------------------------------------------
(* C27 *)

\* write_file has just succeeded on a path directly inside a directory that
\* existed before the call
WroteInExistingDir ==
    /\ IsWrite
    /\ result.ok
    /\ IsDir(before, Parent(Target))

\* the next call is a list_directory of that directory; it succeeds and the
\* stat() of the written file succeeds
ListsParentNext ==
    /\ call'.op = "list_directory"
    /\ validate_and_sanitize_path(call'.path).ok
    /\ Resolve(call'.path) = Parent(Target)
    /\ result'.ok
    /\ Target \notin call'.failing

\* C27: after a successful write_file that creates a new file directly inside
\* an existing directory D, the next list_directory(D) reports one entry more
\* than D had and has an entry with the new name, type "file" and size equal
\* to the length of the UTF-8 encoding of the content; after an overwrite
\* total_entries is unchanged.
C27_ListAfterWrite ==
    [][(WroteInExistingDir /\ ListsParentNext) =>
          LET n == Cardinality(Children(before, Parent(Target)))
              es == result'.value.entries
          IN  /\ result.value = "created" <=> ~Exists(before, Target)
              /\ result.value = "created" =>
                    result'.value.total_entries = n + 1
              /\ result.value = "overwrote" =>
                    result'.value.total_entries = n
              /\ \E i \in 1..Len(es) :
                    /\ es[i].name = Last(Target)
                    /\ es[i].type = "file"
                    /\ es[i].size = <<StrLen(Utf8Encode(call.content))>>
    ]_vars

C27_Witness ==
    /\ ListedOk
    /\ Len(log) = 1
    /\ log[1].path = Append(Cwd, <<"e">>)
    /\ log[1].content = Flat(<<233, 97>>)
    /\ result.value.directory = Cwd
    /\ result.value.total_entries = 2
    /\ Entries[1].name = <<"e">>
    /\ Entries[1].type = "file"
    /\ Entries[1].size = <<3>>

-----------------------------------------------------------------------------
(* C28 *)

\* C28: read_file and list_directory never change the filesystem, whether
\* they succeed or fail: no file or directory is created, removed or changed.
C28_ReadOnly ==
    [][call'.op \in {"read_file", "list_directory"} =>
          /\ nodes' = nodes
          /\ before' = nodes]_vars

C28_Witness ==
    /\ IsRead
    /\ ~result.ok
    /\ result.kind = "NotFound"
    /\ Target = Append(Cwd, <<"e">>)
    /\ IsFile(nodes, Append(Cwd, <<"f">>))
    /\ ~Exists(nodes, Target)
    /\ nodes = before

-----------------------------------------------------------------------------
(* C29 *)

\* C29: a write_file that fails, with whatever kind, leaves the filesystem as
\* it was before the call: no ancestor directory is created, no file is
\* created, an existing target keeps its content.
C29_FailedWriteNoChange ==
    (IsWrite /\ ~result.ok) => nodes = before

-----------------------------------------------------------------------------
(* C30 *)

\* read_file and write_file run on the same path, a writable text file that
\* read_file can read when they start, and no other process removes it
RaceOnTextFile ==
    /\ threads # NoThreads
    /\ PathOf(Reader) = PathOf(Writer)
    /\ IsFile(before, PathOf(Reader))
    /\ before[PathOf(Reader)].w
    /\ read_file(before, threads[Reader].raw).ok     \* a text file
    /\ log = << >>

\* what read_file returns of the file as it was before the write
PreviousContent == ReadText(before, PathOf(Reader))

\* what read_file returns of the file as the write leaves it
NewContent ==
    LET p == PathOf(Writer) IN
    ReadText(Put(before, p,
                 [before[p] EXCEPT
                     !.data = WrittenData(threads[Writer].content)]), p)

\* C30: a read_file that runs concurrently with a write_file on the same
\* existing text file and succeeds returns either the complete previous content
\* or the complete new content, never an empty or partial string.
C30_OldOrNew ==
    (RaceOnTextFile /\ ReadDone /\ threads[Reader].result.ok) =>
        threads[Reader].result \in {PreviousContent, NewContent}

=============================================================================
